---- MODULE Spec2Model ----
(***************************************************************************)
(* Ring-LWE key exchange (kex.c): wire coders, reconciliation (HelpRec,    *)
(* Rec, LDDecode), noise sampling (get_error) and the three protocol       *)
(* operations KeyGeneration_A, SecretAgreement_B, SecretAgreement_A.       *)
(*                                                                         *)
(* Arrays are functions over 0..len-1, indexed as in the C source.         *)
(* A 32-bit word is represented by the integer its bit pattern denotes in  *)
(* two's complement (uint32_t 0xFFFFFFFF is -1).  TLC's integers are       *)
(* themselves 32 bits wide and TLC reports an overflow as an error, so a   *)
(* computation that would wrap is never silently accepted.                 *)
(*                                                                         *)
(* The polynomial length is scaled: the source has PARAMETER_N = 1024      *)
(* coefficients in 256 groups of four lanes; the model has Groups groups   *)
(* and N = 4 * Groups coefficients, with every length and stride of the    *)
(* source derived from Groups in the same way (1792 = 7 * 256 packed       *)
(* bytes, 256 hint bytes, lane stride 256, 3 * N stream bytes).            *)
(***************************************************************************)
EXTENDS Integers, Sequences, FiniteSets, TLC

\* Coder round trips: cur is the object in hand, a polynomial with its seed
\* or hint vector (kind "polyA" / "polyB") or a wire message (kind "msgA" /
\* "msgB"); orig is the object the run started from, steps the coder calls
\* made.
VARIABLES orig, cur, steps
\* Reconciliation: recIn is the call in hand, mode "helprec" (x and the
\* stream output random_bits) or "rec" (x, a hint vector and the caller's key
\* buffer); recOut is what the call left: the hint vector with the locals of
\* every loop iteration, or the key.
VARIABLES recIn, recOut
\* Protocol: pc is the place of the running operation (the next oracle call,
\* or returned); Status its Status variable; bufs the caller's buffers
\* (SecretKeyA, PublicKeyA, PublicKeyB, SharedSecretA, SharedSecretB); pre
\* their contents when the running operation was called; written the indices
\* of each the operation has stored to; frame the locals of the running
\* operation (after its return: as it left them); junk what the stack held
\* before; calls the oracle calls of the running operation in order;
\* ge_stream and hr_random_bits the stream buffer of get_error and the
\* random_bits buffer of HelpRec as they stood at the last return of each;
\* joint the reconciliation inputs of the two sides (v of SecretAgreement_B,
\* u of SecretAgreement_A) as passed to Rec.
VARIABLES pc, Status, bufs, pre, written, frame, junk, calls, ge_stream,
          hr_random_bits, joint

\* ------------------------------------------------------------------ bounds
Groups == 4
MaxSteps == 2

\* --------------------------------------------------------------- constants
\* LatticeCrypto_priv.h (the header kex.c includes)
PARAMETER_Q == 12289
PARAMETER_Q4 == 3073
PARAMETER_3Q4 == 9217
PARAMETER_5Q4 == 15362
PARAMETER_7Q4 == 21506
PARAMETER_Q2 == 6145
PARAMETER_3Q2 == 18434
SEED_BYTES == 32
ERROR_SEED_BYTES == 32

N == 4 * Groups
PolyBytes == 7 * Groups
HintBytes == Groups
MsgABytes == PolyBytes + SEED_BYTES
MsgBBytes == PolyBytes + HintBytes
\* 32 key bytes hold the 256 key bits; random_bits holds one bit per group
KeyBytes == (Groups + 7) \div 8

NoArray == [i \in {} |-> 0]
\* An array with every element computed once (TLC otherwise recomputes an
\* element of a function expression at each use).
Eval(f) == IF f = f THEN f ELSE f

\* ------------------------------------------------------- machine arithmetic
RECURSIVE Pow2(_)
Pow2(k) == IF k = 0 THEN 1 ELSE 2 * Pow2(k - 1)

\* Bitwise operators on two's-complement integers (\div floors, % is >= 0).
RECURSIVE BitAnd(_, _)
BitAnd(a, b) ==
  IF a = 0 \/ b = 0 THEN 0
  ELSE IF a = -1 THEN b
  ELSE IF b = -1 THEN a
  ELSE (a % 2) * (b % 2) + 2 * BitAnd(a \div 2, b \div 2)

RECURSIVE BitOr(_, _)
BitOr(a, b) ==
  IF a = 0 THEN b
  ELSE IF b = 0 THEN a
  ELSE IF a = -1 \/ b = -1 THEN -1
  ELSE (IF a % 2 = 1 \/ b % 2 = 1 THEN 1 ELSE 0) + 2 * BitOr(a \div 2, b \div 2)

RECURSIVE BitXor(_, _)
BitXor(a, b) ==
  IF a = 0 THEN b
  ELSE IF b = 0 THEN a
  ELSE IF a = -1 /\ b = -1 THEN 0
  ELSE (IF a % 2 = b % 2 THEN 0 ELSE 1) + 2 * BitXor(a \div 2, b \div 2)

BitNot(a) == -a - 1

Shl(a, k) == a * Pow2(k)
\* >> on an unsigned operand that is known to be non-negative
Shr(a, k) == a \div Pow2(k)
\* >> 31 on a uint32_t: the top bit
LShr31(w) == IF w < 0 THEN 1 ELSE 0
\* >> 31 on an int32_t: the sign mask
AShr31(w) == IF w < 0 THEN -1 ELSE 0
\* (unsigned char) conversion
U8(a) == a % 256

\* ------------------------------------------------------------- wire coders
\* The 14-bit packing loop shared by encode_A and encode_B: byte k of the
\* packed polynomial (k in 0..7*Groups-1).
PackByte(pk, k) ==
  LET j == 4 * (k \div 7)
      b == k % 7
  IN  CASE b = 0 -> U8(BitAnd(pk[j], 255))
        [] b = 1 -> U8(BitOr(Shr(pk[j], 8), Shl(BitAnd(pk[j+1], 3), 6)))
        [] b = 2 -> U8(BitAnd(Shr(pk[j+1], 2), 255))
        [] b = 3 -> U8(BitOr(Shr(pk[j+1], 10), Shl(BitAnd(pk[j+2], 15), 4)))
        [] b = 4 -> U8(BitAnd(Shr(pk[j+2], 4), 255))
        [] b = 5 -> U8(BitOr(Shr(pk[j+2], 12), Shl(BitAnd(pk[j+3], 63), 2)))
        [] b = 6 -> U8(Shr(pk[j+3], 6))

\* The unpacking loop shared by decode_A and decode_B: coefficient c.
UnpackCoefBad(m, c) ==
  LET i == 7 * (c \div 4)
      l == c % 4
  IN  CASE l = 0 -> BitOr(m[i], Shl(BitAnd(m[i+1], 31), 8))
        [] l = 1 -> BitOr(BitOr(Shr(m[i+1], 6), Shl(m[i+2], 2)), Shl(BitAnd(m[i+3], 15), 10))
        [] l = 2 -> BitOr(BitOr(Shr(m[i+3], 4), Shl(m[i+4], 4)), Shl(BitAnd(m[i+5], 3), 12))
        [] l = 3 -> BitOr(Shr(m[i+5], 2), Shl(m[i+6], 6))

UnpackCoef(m, c) ==
  LET i == 7 * (c \div 4)
      l == c % 4
  IN  CASE l = 0 -> BitOr(m[i], Shl(BitAnd(m[i+1], 63), 8))
        [] l = 1 -> BitOr(BitOr(Shr(m[i+1], 6), Shl(m[i+2], 2)), Shl(BitAnd(m[i+3], 15), 10))
        [] l = 2 -> BitOr(BitOr(Shr(m[i+3], 4), Shl(m[i+4], 4)), Shl(BitAnd(m[i+5], 3), 12))
        [] l = 3 -> BitOr(Shr(m[i+5], 2), Shl(m[i+6], 6))

encode_A(pk, seed) ==
  Eval([k \in 0..(MsgABytes - 1) |->
          IF k < PolyBytes THEN PackByte(pk, k) ELSE seed[k - PolyBytes]])

decode_A(m) ==
  [pk   |-> Eval([c \in 0..(N - 1) |-> UnpackCoef(m, c)]),
   seed |-> Eval([j \in 0..(SEED_BYTES - 1) |-> m[PolyBytes + j]])]

encode_BBad(pk, rvec) ==
  Eval([k \in 0..(MsgBBytes - 1) |->
          IF k < PolyBytes THEN PackByte(pk, k)
          ELSE LET i == 4 * (k - PolyBytes)
               IN  U8(BitOr(BitOr(rvec[i], Shl(rvec[i+1], 2)),
                            BitOr(Shl(rvec[i+2], 4), Shl(rvec[i+3], 5))))])

encode_B(pk, rvec) ==
  Eval([k \in 0..(MsgBBytes - 1) |->
          IF k < PolyBytes THEN PackByte(pk, k)
          ELSE LET i == 4 * (k - PolyBytes)
               IN  U8(BitOr(BitOr(rvec[i], Shl(rvec[i+1], 2)),
                            BitOr(Shl(rvec[i+2], 4), Shl(rvec[i+3], 6))))])

decode_B(m) ==
  [pk   |-> Eval([c \in 0..(N - 1) |-> UnpackCoef(m, c)]),
   rvec |-> Eval([c \in 0..(N - 1) |->
                    LET byte == m[PolyBytes + (c \div 4)]
                        l    == c % 4
                    IN  IF l = 3 THEN Shr(byte, 6)
                        ELSE BitAnd(Shr(byte, 2 * l), 3)])]

\* ----------------------------------------------------------- reconciliation
Abs(value) ==
  LET mask == AShr31(value)
  IN  BitXor(mask, value) - mask

\* One iteration i of the HelpRec loop.  The record holds the locals of the
\* iteration: bit, the four y = rvec[i+256*j] before they are overwritten,
\* the candidates v0 and v1 as they stand after the inner loop, norm before
\* and after it is turned into a mask, and the four hint entries written.
HR_bit(random_bits, i) == BitAnd(1, Shr(random_bits[Shr(i, 3)], BitAnd(i, 7)))

HR_v0Bad(y) ==
  [j \in 0..3 |-> 4 - LShr31(y[j] - PARAMETER_Q4) - LShr31(y[j] - PARAMETER_3Q4)
                    - LShr31(y[j] - PARAMETER_5Q4) - LShr31(y[j] - PARAMETER_Q)]

HR_v0(y) ==
  [j \in 0..3 |-> 4 - LShr31(y[j] - PARAMETER_Q4) - LShr31(y[j] - PARAMETER_3Q4)
                    - LShr31(y[j] - PARAMETER_5Q4) - LShr31(y[j] - PARAMETER_7Q4)]

HR_v1(y) ==
  [j \in 0..3 |-> 3 - LShr31(y[j] - PARAMETER_Q2) - LShr31(y[j] - PARAMETER_Q)
                    - LShr31(y[j] - PARAMETER_3Q2)]

HR_norm(y, v0) ==
  Abs(2 * y[0] - PARAMETER_Q * v0[0]) + Abs(2 * y[1] - PARAMETER_Q * v0[1])
  + Abs(2 * y[2] - PARAMETER_Q * v0[2]) + Abs(2 * y[3] - PARAMETER_Q * v0[3])

HR_selectBad(mask, v0, v1) ==
  [j \in 0..3 |-> BitXor(BitAnd(mask, BitXor(v0[j], v1[j])), v0[j])]

HR_select(mask, v0, v1) ==
  [j \in 0..3 |-> BitXor(BitAnd(mask, BitXor(v0[j], v1[j])), v1[j])]

HR_hint(v, mask) ==
  [j \in 0..3 |->
     IF j < 3 THEN BitAnd(v[j] - v[3], 3)
     ELSE BitAnd(Shl(v[3], 1) + BitAnd(1, BitNot(mask)), 3)]

HR_iter(x, random_bits, i) ==
  LET bit  == HR_bit(random_bits, i)
      y    == [j \in 0..3 |-> Shl(x[i + Groups * j], 1) - bit]
      v0   == HR_v0(y)
      v1   == HR_v1(y)
      norm == HR_norm(y, v0)
      mask == AShr31(norm - PARAMETER_Q)
      v    == HR_select(mask, v0, v1)
  IN  [bit |-> bit, y |-> y, v0 |-> v0, v1 |-> v1, norm |-> norm,
       mask |-> mask, v |-> v, r |-> HR_hint(v, mask)]

\* The generic loop of HelpRec after a successful stream call: the hint
\* vector it leaves in rvec.
HelpRecLoop(x, random_bits) ==
  LET it == Eval([i \in 0..(Groups - 1) |-> HR_iter(x, random_bits, i)])
  IN  Eval([c \in 0..(N - 1) |-> it[c % Groups].r[c \div Groups]])

LDDecode(t) ==
  LET cneg  == -8 * PARAMETER_Q
      term(i) ==
        LET mask1 == AShr31(t[i])
            mask2 == AShr31(4 * PARAMETER_Q - Abs(t[i]))
            value == BitXor(BitAnd(mask1, BitXor(8 * PARAMETER_Q, cneg)), cneg)
        IN  Abs(t[i] + BitAnd(mask2, value))
      norm  == term(0) + term(1) + term(2) + term(3)
  IN  BitXor(LShr31(8 * PARAMETER_Q - norm), 1)

Rec_t(x, rvec, i) ==
  [j \in 0..3 |->
     IF j < 3
     THEN 8 * x[i + Groups * j] - (2 * rvec[i + Groups * j] + rvec[i + 3 * Groups]) * PARAMETER_Q
     ELSE 8 * x[i + 3 * Groups] - rvec[i + 3 * Groups] * PARAMETER_Q]

RECURSIVE RecLoop(_, _, _, _)
RecLoop(x, rvec, key, i) ==
  IF i = Groups THEN key
  ELSE RecLoop(x, rvec,
               [key EXCEPT ![Shr(i, 3)] =
                  BitOr(@, U8(Shl(U8(LDDecode(Rec_t(x, rvec, i))), BitAnd(i, 7))))],
               i + 1)

\* Rec(x, rvec, key): key is the caller's buffer as it stands at the call.
Rec(x, rvec, key) ==
  RecLoop(x, rvec, [i \in DOMAIN key |-> 0], 0)

\* ------------------------------------------------------------ clear_words
\* clear_words(mem, nwords) with nwords = NBYTES_TO_NWORDS(nbytes): the
\* elements of mem (each size bytes wide) that lie in the first nbytes bytes
\* are set to zero.
clear_words(mem, nbytes, size) ==
  [i \in DOMAIN mem |-> IF i * size < nbytes THEN 0 ELSE mem[i]]

AllZero(buf) == \A i \in DOMAIN buf : buf[i] = 0

\* ------------------------------------------------------------------ oracles
\* The three injected oracles.  A call returns a status; the random oracle's
\* bytes are chosen by the caller of the model (any bytes are possible), the
\* extendable-output and stream oracles are deterministic functions of their
\* seed, respectively of their key and nonce.
Success == "CRYPTO_SUCCESS"
FailCodes == {"CRYPTO_ERROR", "CRYPTO_ERROR_NO_MEMORY"}
StatusCodes == {Success} \cup FailCodes

\* Extendable-output oracle: n coefficients in [0, q) from the seed.
XofOut(seed) ==
  Eval([c \in 0..(N - 1) |->
          (seed[0] * (c + 1) * (c + 1) + seed[1] * (c + 1) + seed[2]) % PARAMETER_Q])

\* Stream oracle: len bytes from (key, nonce).  Two bits of key[0], selected
\* by the nonce bytes, pick one of four byte patterns of period 4.
StreamPatterns == << <<255, 0, 255, 0>>, <<0, 255, 0, 255>>,
                     <<255, 0, 0, 255>>, <<0, 255, 255, 0>> >>
StreamOut(key, nce, len) ==
  LET field == (key[0] \div Pow2(2 * ((nce[0] + nce[1]) % 4))) % 4
  IN  Eval([i \in 0..(len - 1) |-> StreamPatterns[field + 1][(i % 4) + 1]])

\* What a buffer holds after an oracle call that was to fill it with out:
\* out on success; on failure either out or what it held before.
Filled(buf, out, st, wrote) == IF st = Success \/ wrote THEN out ELSE buf

\* ---------------------------------------------------------------- get_error
\* uint32_t word i of a byte buffer (little endian), as a two's-complement
\* integer.
WordAt(stream, i) ==
  stream[4 * i] + 256 * stream[4 * i + 1] + 65536 * stream[4 * i + 2]
  + 16777216 * (IF stream[4 * i + 3] >= 128 THEN stream[4 * i + 3] - 256
                ELSE stream[4 * i + 3])

\* >> j on a uint32_t
LShr(w, j) ==
  IF w >= 0 \/ j = 0 THEN w \div Pow2(j)
  ELSE ((w \div Pow2(j)) + Pow2(31 - j)) + Pow2(31 - j)

ByteOf(w, k) == (w \div Pow2(8 * k)) % 256

\* The sampling loop of get_error: iteration i yields acc1 and acc2.
Sample_acc(stream, i) ==
  LET w1 == WordAt(stream, i)
      w2 == WordAt(stream, i + (N \div 4))
      w3 == WordAt(stream, i + 2 * (N \div 4))
      a1(j) == BitAnd(LShr(w1, j), 16843009)
      a2(j) == BitAnd(LShr(w2, j), 16843009)
      b1(j) == BitAnd(LShr(w3, j), 16843009)
      b2(j) == BitAnd(LShr(LShr(w3, j), 4), 16843009)
  IN  [acc1 |-> a1(0) + a1(1) + a1(2) + a1(3) + a1(4) + a1(5) + a1(6) + a1(7)
                + b1(0) + b1(1) + b1(2) + b1(3),
       acc2 |-> a2(0) + a2(1) + a2(2) + a2(3) + a2(4) + a2(5) + a2(6) + a2(7)
                + b2(0) + b2(1) + b2(2) + b2(3)]

Sample(stream) ==
  LET acc == Eval([i \in 0..((N \div 4) - 1) |-> Sample_acc(stream, i)])
  IN  Eval([c \in 0..(N - 1) |->
              LET h == c % (N \div 2)
                  w == IF c < N \div 2 THEN acc[h \div 2].acc1 ELSE acc[h \div 2].acc2
              IN  IF h % 2 = 0 THEN ByteOf(w, 0) - ByteOf(w, 1)
                  ELSE ByteOf(w, 2) - ByteOf(w, 3)])

NonceBytesBad(k, nonce) == [b \in 0..7 |-> IF b = 0 THEN U8(nonce) ELSE 0]

NonceBytes(k, nonce) == [b \in 0..7 |-> IF b = k THEN U8(nonce) ELSE 0]

\* get_error(e, seed, nonce, StreamOutputFunction).  old is what the stack
\* holds where stream is placed, st and wrote the stream oracle's behaviour.
\* The result holds the returned Status, e, the stream buffer as it stands
\* when get_error returns, and the oracle call made.
get_errorBad(e, seed, nonce, old, st, wrote) ==
  LET nce    == NonceBytes(0, nonce)
      stream == Filled(old, StreamOut(seed, nce, 3 * N), st, wrote)
      call   == [fn |-> "stream", key |-> seed, nce |-> nce, len |-> 3 * N, status |-> st]
  IN  [Status |-> Success, e |-> Sample(stream), stream |-> stream, call |-> call]

get_error(e, seed, nonce, old, st, wrote) ==
  LET nce    == NonceBytes(0, nonce)
      stream == Filled(old, StreamOut(seed, nce, 3 * N), st, wrote)
      call   == [fn |-> "stream", key |-> seed, nce |-> nce, len |-> 3 * N, status |-> st]
  IN  IF st # Success
      THEN [Status |-> st, e |-> e, stream |-> clear_words(stream, 3 * N, 1),
            call |-> call]
      ELSE [Status |-> st, e |-> Sample(stream), stream |-> stream, call |-> call]

\* HelpRec(x, rvec, seed, nonce, StreamOutputFunction), likewise.
HelpRec(x, rvec, seed, nonce, old, st, wrote) ==
  LET nce         == NonceBytes(1, nonce)
      random_bits == Filled(old, StreamOut(seed, nce, KeyBytes), st, wrote)
      call        == [fn |-> "stream", key |-> seed, nce |-> nce, len |-> KeyBytes,
                      status |-> st]
  IN  IF st # Success
      THEN [Status |-> st, rvec |-> rvec,
            random_bits |-> clear_words(random_bits, KeyBytes, 1), call |-> call]
      ELSE [Status |-> st, rvec |-> HelpRecLoop(x, random_bits),
            random_bits |-> random_bits, call |-> call]

\* generate_a(a, seed, ExtendableOutputFunction)
generate_a(a, seed, st, wrote) ==
  [Status |-> st, a |-> Filled(a, XofOut(seed), st, wrote),
   call |-> [fn |-> "xof", key |-> seed, nce |-> NoArray, len |-> N, status |-> st]]

\* random_bytes(nbytes, buf, RandomBytesFunction); out is the oracle's choice
random_bytes(buf, out, st, wrote) ==
  [Status |-> st, buf |-> Filled(buf, out, st, wrote),
   call |-> [fn |-> "random", key |-> NoArray, nce |-> NoArray, len |-> SEED_BYTES,
             status |-> st]]

\* ---------------------------------------------------------- ring arithmetic
\* The transform-domain routines live outside kex.c.  A polynomial in the
\* transform domain is represented by the ring element of
\* Z_q[x]/(x^n + 1) it stands for, with canonical coefficients: the forward
\* and inverse transforms keep the element, pointwise multiplication is the
\* negacyclic product, and the scalings by 3 and 81 (Montgomery
\* normalisation) keep the element.
Canon(z) == z % PARAMETER_Q
NTT_CT_std2rev_12289(p) == Eval([c \in DOMAIN p |-> Canon(p[c])])
INTT_GS_rev2std_12289(p) == Eval([c \in DOMAIN p |-> Canon(p[c])])
smul(p, k) == p
two_reduce12289(p) == p
correction(p) == Eval([c \in DOMAIN p |-> Canon(p[c])])
RECURSIVE NegacyclicSum(_, _, _, _)
NegacyclicSum(a, b, k, n) ==
  IF n = 0 THEN 0
  ELSE LET i == n - 1
       IN  Canon((IF i <= k THEN a[i] * b[k - i] ELSE -(a[i] * b[k + N - i]))
                 + NegacyclicSum(a, b, k, i))
NegacyclicCoef(a, b, k) == NegacyclicSum(a, b, k, N)
pmul(a, b) == Eval([k \in 0..(N - 1) |-> NegacyclicCoef(a, b, k)])
pmuladd(a, b, c) == Eval([k \in 0..(N - 1) |-> Canon(NegacyclicCoef(a, b, k) + c[k])])

coderVars == <<orig, cur, steps>>
recVars == <<recIn, recOut>>
protoVars == <<pc, Status, bufs, pre, written, frame, junk, calls, ge_stream,
               hr_random_bits, joint>>
vars == <<coderVars, recVars, protoVars>>

\* -------------------------------------------------- coder round trips (state)

Idle == [kind |-> "idle", pk |-> NoArray, aux |-> NoArray, m |-> NoArray]

\* Input families.  A 4-tuple of coefficients, a 4-tuple of hint entries or
\* a 7-tuple of bytes is laid out over all groups, rotated by the group
\* index so that the groups differ.
CoefVals == {0, 1, 12288, 16383}
ByteVals == {0, 165, 255}
HintByteVals == {0, 27, 228, 255}
SeedKeys == {0, 1, 37}
PolyOf(t) == [c \in 0..(N - 1) |-> t[((c + (c \div 4)) % 4) + 1]]
PackedOf(t) == [k \in 0..(PolyBytes - 1) |-> t[(((k % 7) + (k \div 7)) % 7) + 1]]
SeedOf(k) == [j \in 0..(SEED_BYTES - 1) |-> (j * k + 7 * k) % 256]
Tuples(S, n) == [1..n -> S]
PolyTuplesB == {<<0, 1, 12288, 16383>>, <<16383, 16383, 16383, 16383>>,
                <<8191, 8192, 255, 256>>, <<10922, 5461, 3, 16380>>}

InitCoder ==
  /\ steps = 0
  /\ \/ \E t \in Tuples(CoefVals, 4), k \in SeedKeys :
          orig = [kind |-> "polyA", pk |-> PolyOf(t), aux |-> SeedOf(k), m |-> NoArray]
     \/ \E t \in PolyTuplesB, h \in Tuples(0..3, 4) :
          orig = [kind |-> "polyB", pk |-> PolyOf(t), aux |-> PolyOf(h), m |-> NoArray]
     \/ \E t \in Tuples(ByteVals, 7), k \in SeedKeys :
          orig = [kind |-> "msgA", pk |-> NoArray, aux |-> NoArray,
                  m |-> [i \in 0..(MsgABytes - 1) |->
                           IF i < PolyBytes THEN PackedOf(t)[i]
                           ELSE SeedOf(k)[i - PolyBytes]]]
     \/ \E t \in Tuples(ByteVals, 7), h \in HintByteVals :
          orig = [kind |-> "msgB", pk |-> NoArray, aux |-> NoArray,
                  m |-> [i \in 0..(MsgBBytes - 1) |->
                           IF i < PolyBytes THEN PackedOf(t)[i]
                           ELSE (h + 85 * (i - PolyBytes)) % 256]]
  /\ cur = orig

EncodeA ==
  /\ cur.kind = "polyA" /\ steps < MaxSteps
  /\ cur' = [kind |-> "msgA", pk |-> NoArray, aux |-> NoArray,
             m |-> encode_A(cur.pk, cur.aux)]
  /\ steps' = steps + 1
  /\ UNCHANGED <<orig, recVars, protoVars>>

DecodeA ==
  /\ cur.kind = "msgA" /\ steps < MaxSteps
  /\ LET d == decode_A(cur.m)
     IN  cur' = [kind |-> "polyA", pk |-> d.pk, aux |-> d.seed, m |-> NoArray]
  /\ steps' = steps + 1
  /\ UNCHANGED <<orig, recVars, protoVars>>

EncodeB ==
  /\ cur.kind = "polyB" /\ steps < MaxSteps
  /\ cur' = [kind |-> "msgB", pk |-> NoArray, aux |-> NoArray,
             m |-> encode_B(cur.pk, cur.aux)]
  /\ steps' = steps + 1
  /\ UNCHANGED <<orig, recVars, protoVars>>

DecodeB ==
  /\ cur.kind = "msgB" /\ steps < MaxSteps
  /\ LET d == decode_B(cur.m)
     IN  cur' = [kind |-> "polyB", pk |-> d.pk, aux |-> d.rvec, m |-> NoArray]
  /\ steps' = steps + 1
  /\ UNCHANGED <<orig, recVars, protoVars>>

NextCoder == EncodeA \/ DecodeA \/ EncodeB \/ DecodeB
CoderIdle == orig = Idle /\ cur = Idle /\ steps = 0

\* ------------------------------------------------- reconciliation (state)

NoCall == [mode |-> "none", x |-> NoArray, bits |-> NoArray, rvec |-> NoArray,
           key |-> NoArray]
NoResult == [done |-> FALSE, iters |-> NoArray, rvec |-> NoArray, key |-> NoArray]

\* Input families: lane j of group i holds t[((j + i) % 4) + 1] + 1536 * i
\* (mod q), canonical in [0, q).
XVals == {0, 1, 1536, 1537, 3072, 3073, 4608, 4609, 6144, 6145, 7680, 7681,
          9216, 9217, 10753, 12288}
XPairs == {<<0, 0>>, <<1536, 1536>>, <<1536, 0>>, <<12288, 3072>>}
XValsRec == {0, 1, 6144, 6145, 12288}
HintTuples == {<<0, 0, 0, 0>>, <<3, 3, 3, 3>>, <<1, 2, 3, 0>>, <<0, 1, 2, 3>>,
               <<2, 0, 1, 1>>, <<3, 1, 0, 2>>}
BitsVals == {0, 165, 255}
KeyFill == {0, 255}
XPolyOf(t) ==
  [c \in 0..(N - 1) |->
     (t[(((c \div Groups) + (c % Groups)) % 4) + 1] + 1536 * (c % Groups)) % PARAMETER_Q]
HintOf(t) ==
  [c \in 0..(N - 1) |-> t[(((c \div Groups) + (c % Groups)) % 4) + 1]]

InitRec ==
  /\ recOut = NoResult
  /\ \/ \E a \in XVals, b \in XVals, cd \in XPairs, rb \in BitsVals :
          recIn = [mode |-> "helprec", x |-> XPolyOf(<<a, b, cd[1], cd[2]>>),
                   bits |-> [k \in 0..(KeyBytes - 1) |-> rb],
                   rvec |-> NoArray, key |-> NoArray]
     \/ \E t \in Tuples(XValsRec, 4), h \in HintTuples, f \in KeyFill :
          recIn = [mode |-> "rec", x |-> XPolyOf(t), bits |-> NoArray,
                   rvec |-> HintOf(h), key |-> [k \in 0..(KeyBytes - 1) |-> f]]

DoHelpRec ==
  /\ recIn.mode = "helprec" /\ ~recOut.done
  /\ recOut' = [done |-> TRUE,
                iters |-> [i \in 0..(Groups - 1) |-> HR_iter(recIn.x, recIn.bits, i)],
                rvec |-> HelpRecLoop(recIn.x, recIn.bits),
                key |-> NoArray]
  /\ UNCHANGED <<recIn, coderVars, protoVars>>

DoRec ==
  /\ recIn.mode = "rec" /\ ~recOut.done
  /\ recOut' = [done |-> TRUE, iters |-> NoArray, rvec |-> NoArray,
                key |-> Rec(recIn.x, recIn.rvec, recIn.key)]
  /\ UNCHANGED <<recIn, coderVars, protoVars>>

NextRec == DoHelpRec \/ DoRec
RecIdle == recIn = NoCall /\ recOut = NoResult


\* ------------------------------------------------------- protocol (state)
FillVals == {0, 170}
JunkVals == {0, 90}
SeedHeads == {<<0, 0, 1>>, <<16, 239, 62>>, <<1, 2, 3>>}
ErrKeys == {0, 11, 42, 228}
SeedFrom(h) == [j \in 0..(SEED_BYTES - 1) |-> IF j < 3 THEN h[j + 1] ELSE (5 * j) % 256]
ErrSeedFrom(k) == [j \in 0..(ERROR_SEED_BYTES - 1) |-> IF j = 0 THEN k ELSE (j + k) % 256]
SeedChoices == {SeedFrom(h) : h \in SeedHeads}
ErrSeedChoices == {ErrSeedFrom(k) : k \in ErrKeys}
Wrote(st) == IF st = Success THEN {TRUE} ELSE BOOLEAN

Arr(n, val) == [i \in 0..(n - 1) |-> val]
Store(buf, w) == [i \in DOMAIN buf |-> IF i \in DOMAIN w THEN w[i] ELSE buf[i]]
NoFrame == [a |-> NoArray, e |-> NoArray, seed |-> NoArray, error_seed |-> NoArray,
            pk_A |-> NoArray, v |-> NoArray, r |-> NoArray, sk_B |-> NoArray,
            u |-> NoArray]
NoneWritten == [SecretKeyA |-> {}, PublicKeyA |-> {}, PublicKeyB |-> {},
                SharedSecretA |-> {}, SharedSecretB |-> {}]
NoJoint == [v |-> NoArray, u |-> NoArray]

ProtoIdle ==
  /\ pc = "none" /\ Status = "CRYPTO_ERROR_UNKNOWN" /\ junk = 0
  /\ bufs = [SecretKeyA |-> NoArray, PublicKeyA |-> NoArray, PublicKeyB |-> NoArray,
             SharedSecretA |-> NoArray, SharedSecretB |-> NoArray]
  /\ pre = bufs /\ written = NoneWritten /\ frame = NoFrame /\ calls = <<>>
  /\ ge_stream = NoArray /\ hr_random_bits = NoArray /\ joint = NoJoint

InitProto ==
  /\ pc = "start" /\ Status = "CRYPTO_ERROR_UNKNOWN"
  /\ junk \in JunkVals
  /\ \E f \in FillVals :
       bufs = [SecretKeyA |-> Arr(N, f), PublicKeyA |-> Arr(MsgABytes, f),
               PublicKeyB |-> Arr(MsgBBytes, f), SharedSecretA |-> Arr(KeyBytes, f),
               SharedSecretB |-> Arr(KeyBytes, f)]
  /\ pre = bufs /\ written = NoneWritten /\ frame = NoFrame /\ calls = <<>>
  /\ ge_stream = NoArray /\ hr_random_bits = NoArray /\ joint = NoJoint

\* ---- KeyGeneration_A
KA_frame ==
  [NoFrame EXCEPT !.a = Arr(N, junk), !.e = Arr(N, junk),
                  !.seed = Arr(SEED_BYTES, junk),
                  !.error_seed = Arr(ERROR_SEED_BYTES, junk)]

\* the cleanup label of KeyGeneration_A
KA_cleanup(fr) ==
  [fr EXCEPT !.e = clear_words(@, 4 * N, 4),
             !.error_seed = clear_words(@, ERROR_SEED_BYTES, 1)]

\* the call, up to the first random_bytes and its check
KA_RandomSeed ==
  /\ pc = "start"
  /\ \E out \in SeedChoices, st \in StatusCodes : \E wrote \in Wrote(st) :
       LET r == random_bytes(KA_frame.seed, out, st, wrote)
       IN  /\ frame' = [KA_frame EXCEPT !.seed = r.buf]
           /\ calls' = <<r.call>>
           /\ Status' = r.Status
           /\ pc' = IF r.Status # Success THEN "KA_ret" ELSE "KA_rand_error_seed"
  /\ pre' = bufs /\ written' = NoneWritten
  /\ UNCHANGED <<bufs, junk, ge_stream, hr_random_bits, joint, coderVars, recVars>>

KA_RandomErrorSeed ==
  /\ pc = "KA_rand_error_seed"
  /\ \E out \in ErrSeedChoices, st \in StatusCodes : \E wrote \in Wrote(st) :
       LET r  == random_bytes(frame.error_seed, out, st, wrote)
           fr == [frame EXCEPT !.error_seed = r.buf]
       IN  /\ calls' = Append(calls, r.call)
           /\ Status' = r.Status
           /\ IF r.Status # Success
              THEN frame' = KA_cleanup(fr) /\ pc' = "KA_ret"
              ELSE frame' = fr /\ pc' = "KA_generate_a"
  /\ UNCHANGED <<bufs, pre, written, junk, ge_stream, hr_random_bits, joint,
                 coderVars, recVars>>

KA_GenerateA ==
  /\ pc = "KA_generate_a"
  /\ \E st \in StatusCodes : \E wrote \in Wrote(st) :
       LET r  == generate_a(frame.a, frame.seed, st, wrote)
           fr == [frame EXCEPT !.a = r.a]
       IN  /\ calls' = Append(calls, r.call)
           /\ Status' = r.Status
           /\ IF r.Status # Success
              THEN frame' = KA_cleanup(fr) /\ pc' = "KA_ret"
              ELSE frame' = fr /\ pc' = "KA_get_error_0"
  /\ UNCHANGED <<bufs, pre, written, junk, ge_stream, hr_random_bits, joint,
                 coderVars, recVars>>

\* get_error(SecretKeyA, error_seed, 0, ...): e is the caller's SecretKeyA
KA_GetError0 ==
  /\ pc = "KA_get_error_0"
  /\ \E st \in StatusCodes : \E wrote \in Wrote(st) :
       LET r == get_error(bufs.SecretKeyA, frame.error_seed, 0, Arr(3 * N, junk), st, wrote)
       IN  /\ calls' = Append(calls, r.call)
           /\ Status' = r.Status
           /\ ge_stream' = r.stream
           /\ bufs' = [bufs EXCEPT !.SecretKeyA = r.e]
           /\ IF r.Status # Success
              THEN frame' = KA_cleanup(frame) /\ pc' = "KA_ret" /\ UNCHANGED written
              ELSE /\ frame' = frame /\ pc' = "KA_get_error_1"
                   /\ written' = [written EXCEPT !.SecretKeyA = @ \cup DOMAIN r.e]
  /\ UNCHANGED <<pre, junk, hr_random_bits, joint, coderVars, recVars>>

\* get_error(e, error_seed, 1, ...) and, when it succeeds, the rest of
\* KeyGeneration_A down to its return
KA_GetError1 ==
  /\ pc = "KA_get_error_1"
  /\ \E st \in StatusCodes : \E wrote \in Wrote(st) :
       LET r == get_error(frame.e, frame.error_seed, 1, Arr(3 * N, junk), st, wrote)
       IN  /\ calls' = Append(calls, r.call)
           /\ Status' = r.Status
           /\ ge_stream' = r.stream
           /\ pc' = "KA_ret"
           /\ IF r.Status # Success
              THEN /\ frame' = KA_cleanup([frame EXCEPT !.e = r.e])
                   /\ UNCHANGED <<bufs, written>>
              ELSE LET sk == NTT_CT_std2rev_12289(bufs.SecretKeyA)
                       e  == smul(NTT_CT_std2rev_12289(r.e), 3)
                       a  == correction(pmuladd(frame.a, sk, e))
                       m  == encode_A(a, frame.seed)
                   IN  /\ frame' = KA_cleanup([frame EXCEPT !.e = e, !.a = a])
                       /\ bufs' = [bufs EXCEPT !.SecretKeyA = sk,
                                               !.PublicKeyA = Store(@, m)]
                       /\ written' = [written EXCEPT !.PublicKeyA = @ \cup DOMAIN m]
  /\ UNCHANGED <<pre, junk, hr_random_bits, joint, coderVars, recVars>>

\* ---- SecretAgreement_B
SB_frame ==
  [NoFrame EXCEPT !.pk_A = Arr(N, junk), !.a = Arr(N, junk), !.v = Arr(N, junk),
                  !.r = Arr(N, junk), !.sk_B = Arr(N, junk), !.e = Arr(N, junk),
                  !.seed = Arr(SEED_BYTES, junk),
                  !.error_seed = Arr(ERROR_SEED_BYTES, junk)]

SB_cleanupBad(fr) ==
  [fr EXCEPT !.sk_B = clear_words(@, 4 * N, 4),
             !.e = clear_words(@, 4 * N, 4),
             !.error_seed = clear_words(@, ERROR_SEED_BYTES, 1),
             !.a = clear_words(@, 4 * N, 4),
             !.r = clear_words(@, 4 * N, 4)]

\* the cleanup label of SecretAgreement_B
SB_cleanup(fr) ==
  [fr EXCEPT !.sk_B = clear_words(@, 4 * N, 4),
             !.e = clear_words(@, 4 * N, 4),
             !.error_seed = clear_words(@, ERROR_SEED_BYTES, 1),
             !.a = clear_words(@, 4 * N, 4),
             !.v = clear_words(@, 4 * N, 4),
             !.r = clear_words(@, 4 * N, 4)]

\* The end of SecretAgreement_B once HelpRec has returned h: the caller's two
\* output buffers and the indices of each that were stored to.
SB_outputsBad(h, fr, SharedSecretB, PublicKeyB) ==
  LET key == Rec(fr.v, fr.r, SharedSecretB)
  IN  IF h.Status # Success
      THEN [SharedSecretB |-> Store(SharedSecretB, key), PublicKeyB |-> PublicKeyB,
            wroteKey |-> DOMAIN key, wrotePk |-> {}]
      ELSE LET m == encode_B(fr.a, fr.r)
           IN  [SharedSecretB |-> Store(SharedSecretB, key),
                PublicKeyB |-> Store(PublicKeyB, m),
                wroteKey |-> DOMAIN key, wrotePk |-> DOMAIN m]

SB_outputs(h, fr, SharedSecretB, PublicKeyB) ==
  IF h.Status # Success
  THEN [SharedSecretB |-> SharedSecretB, PublicKeyB |-> PublicKeyB,
        wroteKey |-> {}, wrotePk |-> {}]
  ELSE LET key == Rec(fr.v, fr.r, SharedSecretB)
           m   == encode_B(fr.a, fr.r)
       IN  [SharedSecretB |-> Store(SharedSecretB, key),
            PublicKeyB |-> Store(PublicKeyB, m),
            wroteKey |-> DOMAIN key, wrotePk |-> DOMAIN m]

\* the call (made with the PublicKeyA that KeyGeneration_A produced), up to
\* random_bytes and its check
SB_Random ==
  /\ pc = "KA_ret" /\ Status = Success
  /\ \E out \in ErrSeedChoices, st \in StatusCodes : \E wrote \in Wrote(st) :
       LET d  == decode_A(bufs.PublicKeyA)
           r  == random_bytes(SB_frame.error_seed, out, st, wrote)
           fr == [SB_frame EXCEPT !.pk_A = d.pk, !.seed = d.seed, !.error_seed = r.buf]
       IN  /\ calls' = <<r.call>>
           /\ Status' = r.Status
           /\ IF r.Status # Success
              THEN frame' = SB_cleanup(fr) /\ pc' = "SB_ret"
              ELSE frame' = fr /\ pc' = "SB_generate_a"
  /\ pre' = bufs /\ written' = NoneWritten
  /\ UNCHANGED <<bufs, junk, ge_stream, hr_random_bits, joint, coderVars, recVars>>

SB_GenerateA ==
  /\ pc = "SB_generate_a"
  /\ \E st \in StatusCodes : \E wrote \in Wrote(st) :
       LET r  == generate_a(frame.a, frame.seed, st, wrote)
           fr == [frame EXCEPT !.a = r.a]
       IN  /\ calls' = Append(calls, r.call)
           /\ Status' = r.Status
           /\ IF r.Status # Success
              THEN frame' = SB_cleanup(fr) /\ pc' = "SB_ret"
              ELSE frame' = fr /\ pc' = "SB_get_error_0"
  /\ UNCHANGED <<bufs, pre, written, junk, ge_stream, hr_random_bits, joint,
                 coderVars, recVars>>

SB_GetError0 ==
  /\ pc = "SB_get_error_0"
  /\ \E st \in StatusCodes : \E wrote \in Wrote(st) :
       LET r  == get_error(frame.sk_B, frame.error_seed, 0, Arr(3 * N, junk), st, wrote)
           fr == [frame EXCEPT !.sk_B = r.e]
       IN  /\ calls' = Append(calls, r.call)
           /\ Status' = r.Status
           /\ ge_stream' = r.stream
           /\ IF r.Status # Success
              THEN frame' = SB_cleanup(fr) /\ pc' = "SB_ret"
              ELSE frame' = fr /\ pc' = "SB_get_error_1"
  /\ UNCHANGED <<bufs, pre, written, junk, hr_random_bits, joint, coderVars, recVars>>

\* get_error(e, error_seed, 1, ...) and, when it succeeds, the code down to
\* the next oracle call
SB_GetError1 ==
  /\ pc = "SB_get_error_1"
  /\ \E st \in StatusCodes : \E wrote \in Wrote(st) :
       LET r == get_error(frame.e, frame.error_seed, 1, Arr(3 * N, junk), st, wrote)
       IN  /\ calls' = Append(calls, r.call)
           /\ Status' = r.Status
           /\ ge_stream' = r.stream
           /\ IF r.Status # Success
              THEN frame' = SB_cleanup([frame EXCEPT !.e = r.e]) /\ pc' = "SB_ret"
              ELSE LET sk == NTT_CT_std2rev_12289(frame.sk_B)
                       e  == smul(NTT_CT_std2rev_12289(r.e), 3)
                       a  == correction(pmuladd(frame.a, sk, e))
                   IN  /\ frame' = [frame EXCEPT !.sk_B = sk, !.e = e, !.a = a]
                       /\ pc' = "SB_get_error_2"
  /\ UNCHANGED <<bufs, pre, written, junk, hr_random_bits, joint, coderVars, recVars>>

SB_GetError2 ==
  /\ pc = "SB_get_error_2"
  /\ \E st \in StatusCodes : \E wrote \in Wrote(st) :
       LET r == get_error(frame.e, frame.error_seed, 2, Arr(3 * N, junk), st, wrote)
       IN  /\ calls' = Append(calls, r.call)
           /\ Status' = r.Status
           /\ ge_stream' = r.stream
           /\ IF r.Status # Success
              THEN frame' = SB_cleanup([frame EXCEPT !.e = r.e]) /\ pc' = "SB_ret"
              ELSE LET e == smul(NTT_CT_std2rev_12289(r.e), 81)
                       v == correction(two_reduce12289(INTT_GS_rev2std_12289(
                              pmuladd(frame.pk_A, frame.sk_B, e))))
                   IN  /\ frame' = [frame EXCEPT !.e = e, !.v = v]
                       /\ pc' = "SB_help_rec"
  /\ UNCHANGED <<bufs, pre, written, junk, hr_random_bits, joint, coderVars, recVars>>

\* HelpRec(v, r, error_seed, 3, ...) and, when it succeeds, Rec, encode_B and
\* the return through cleanup
SB_HelpRec ==
  /\ pc = "SB_help_rec"
  /\ \E st \in StatusCodes : \E wrote \in Wrote(st) :
       LET h  == HelpRec(frame.v, frame.r, frame.error_seed, 3, Arr(KeyBytes, junk),
                         st, wrote)
           fr == [frame EXCEPT !.r = h.rvec]
           o  == SB_outputs(h, fr, bufs.SharedSecretB, bufs.PublicKeyB)
       IN  /\ calls' = Append(calls, h.call)
           /\ Status' = h.Status
           /\ hr_random_bits' = h.random_bits
           /\ pc' = "SB_ret"
           /\ frame' = SB_cleanup(fr)
           /\ bufs' = [bufs EXCEPT !.SharedSecretB = o.SharedSecretB,
                                   !.PublicKeyB = o.PublicKeyB]
           /\ written' = [written EXCEPT !.SharedSecretB = @ \cup o.wroteKey,
                                         !.PublicKeyB = @ \cup o.wrotePk]
           /\ joint' = IF h.Status # Success THEN joint ELSE [joint EXCEPT !.v = fr.v]
  /\ UNCHANGED <<pre, junk, ge_stream, coderVars, recVars>>

\* ---- SecretAgreement_A, called with the PublicKeyB that SecretAgreement_B
\* produced and the SecretKeyA that KeyGeneration_A produced
SecretAgreement_A ==
  /\ pc = "SB_ret" /\ Status = Success
  /\ LET d   == decode_B(bufs.PublicKeyB)
         u   == correction(two_reduce12289(INTT_GS_rev2std_12289(
                  pmul(bufs.SecretKeyA, d.pk))))
         key == Rec(u, d.rvec, bufs.SharedSecretA)
     IN  /\ bufs' = [bufs EXCEPT !.SharedSecretA = Store(@, key)]
         /\ written' = [NoneWritten EXCEPT !.SharedSecretA = DOMAIN key]
         /\ joint' = [joint EXCEPT !.u = u]
         /\ frame' = [NoFrame EXCEPT !.u = clear_words(u, 4 * N, 4),
                                     !.r = clear_words(d.rvec, 4 * N, 4)]
  /\ pre' = bufs /\ calls' = <<>> /\ Status' = Success /\ pc' = "SA_ret"
  /\ UNCHANGED <<junk, ge_stream, hr_random_bits, coderVars, recVars>>

NextProto ==
  \/ KA_RandomSeed \/ KA_RandomErrorSeed \/ KA_GenerateA \/ KA_GetError0 \/ KA_GetError1
  \/ SB_Random \/ SB_GenerateA \/ SB_GetError0 \/ SB_GetError1 \/ SB_GetError2
  \/ SB_HelpRec \/ SecretAgreement_A
CoderInit == InitCoder /\ RecIdle /\ ProtoIdle
SpecCoder == CoderInit /\ [][NextCoder]_vars
RecInit == InitRec /\ CoderIdle /\ ProtoIdle
SpecRec == RecInit /\ [][NextRec]_vars
Init == InitProto /\ CoderIdle /\ RecIdle
Next == NextProto
Spec == Init /\ [][Next]_vars

\* C1: the wire coders are mutually inverse: after an even number of coder
\* calls (encode then decode, or decode then encode) the object in hand is
\* the object the run started from, for polynomials with 14-bit coefficients,
\* any seed, any hint vector over {0,1,2,3}, and any wire message.
CodersInverse == (steps % 2 = 0) => (cur = orig)

C1_Witness ==
  /\ steps = 2
  /\ orig.kind = "polyB"
  /\ cur = orig
  /\ \E c \in 0..(N - 1) : orig.pk[c] = 16383 /\ orig.aux[c] = 3

MathAbs(z) == IF z < 0 THEN -z ELSE z

\* Vocabulary of the key-agreement claim: the representative of z mod q of
\* least absolute value, and for a group the l1 distance over its four lanes
\* between the value B reconciled (v) and the value A reconciled (u).
Centered(z) ==
  LET m == z % PARAMETER_Q
  IN  IF 2 * m > PARAMETER_Q THEN m - PARAMETER_Q ELSE m
GroupDistance(i) ==
  LET d(j) == MathAbs(Centered(joint.v[i + Groups * j] - joint.u[i + Groups * j]))
  IN  d(0) + d(1) + d(2) + d(3)
WithinTolerance == \A i \in 0..(Groups - 1) : 4 * GroupDistance(i) < 3 * PARAMETER_Q - 8
AllSucceeded == pc = "SA_ret"

\* C2 as stated: in every honest run KeyGeneration_A -> SecretAgreement_B ->
\* SecretAgreement_A in which all oracle calls succeed, SharedSecretA equals
\* SharedSecretB.
KeysAgreeAsStated == AllSucceeded => bufs.SharedSecretA = bufs.SharedSecretB

\* C2 amended: in every such run SharedSecretA equals SharedSecretB provided
\* that in every group the l1 distance over the four lanes between B's v and
\* A's u (differences taken mod q, centered) is below 3q/4 - 2.
KeysAgree ==
  (AllSucceeded /\ WithinTolerance) => bufs.SharedSecretA = bufs.SharedSecretB

C2_Witness ==
  /\ AllSucceeded /\ WithinTolerance
  /\ \E i \in 0..(Groups - 1) : GroupDistance(i) > 0
  /\ bufs.SharedSecretA = bufs.SharedSecretB
  /\ \E i \in 0..(Groups - 1) : (bufs.SharedSecretB[0] \div Pow2(i)) % 2 = 1

\* Vocabulary of the oracle-order claim.
KA_Order == <<"random", "random", "xof", "stream", "stream">>
SB_Order == <<"random", "xof", "stream", "stream", "stream", "stream">>
InKA == pc \in {"KA_rand_error_seed", "KA_generate_a", "KA_get_error_0",
                "KA_get_error_1", "KA_ret"}
InSB == pc \in {"SB_generate_a", "SB_get_error_0", "SB_get_error_1",
                "SB_get_error_2", "SB_help_rec", "SB_ret"}
Returned == pc \in {"KA_ret", "SB_ret"}

\* C3: KeyGeneration_A and SecretAgreement_B call the oracles in a fixed
\* order (random, random, XOF, stream, stream; respectively random, XOF,
\* stream x 4); every call but the last made was successful, the operation
\* goes on only after a successful call, and when it has returned its status
\* is the status of the last call made, which is success only when all calls
\* of the order were made.
OracleOrder ==
  (InKA \/ InSB) =>
    LET ord == IF InKA THEN KA_Order ELSE SB_Order
        n   == Len(calls)
    IN  /\ n \in 1..Len(ord)
        /\ \A k \in 1..n : calls[k].fn = ord[k]
        /\ \A k \in 1..(n - 1) : calls[k].status = Success
        /\ ~Returned => calls[n].status = Success /\ n < Len(ord)
        /\ Returned => /\ Status = calls[n].status
                       /\ (Status = Success) = (n = Len(ord) /\ calls[n].status = Success)
                       /\ calls[n].status # Success \/ n = Len(ord)

C3_Witness ==
  /\ pc = "SB_ret"
  /\ Len(calls) = 4
  /\ calls[4].status = "CRYPTO_ERROR_NO_MEMORY"
  /\ Status = "CRYPTO_ERROR_NO_MEMORY"

\* C4: when SecretAgreement_B has returned a status other than success, the
\* caller's SharedSecretB and PublicKeyB hold the bytes they held at the call
\* and no byte of them was stored to; when it has returned success, every
\* byte of SharedSecretB and of PublicKeyB was stored to.
SB_OutputsAllOrNothing ==
  pc = "SB_ret" =>
    IF Status = Success
    THEN /\ written.SharedSecretB = 0..(KeyBytes - 1)
         /\ written.PublicKeyB = 0..(MsgBBytes - 1)
    ELSE /\ bufs.SharedSecretB = pre.SharedSecretB
         /\ bufs.PublicKeyB = pre.PublicKeyB
         /\ written.SharedSecretB = {} /\ written.PublicKeyB = {}

C4_Witness ==
  /\ pc = "SB_ret" /\ Status # Success
  /\ Len(calls) = 6
  /\ bufs.PublicKeyB = pre.PublicKeyB /\ bufs.PublicKeyB[0] = 170
  /\ bufs.SharedSecretB = pre.SharedSecretB

\* C5: when KeyGeneration_A has returned a status other than success,
\* SecretKeyA and PublicKeyA hold the contents they held at the call and
\* neither was stored to.
KA_FailureLeavesOutputs ==
  (pc = "KA_ret" /\ Status # Success) =>
    /\ bufs.SecretKeyA = pre.SecretKeyA /\ bufs.PublicKeyA = pre.PublicKeyA
    /\ written.SecretKeyA = {} /\ written.PublicKeyA = {}

\* C6: when SecretAgreement_B has returned, on any path, its locals sk_B, e,
\* error_seed, a, v and r are entirely zero.
SB_LocalsZeroed ==
  pc = "SB_ret" =>
    /\ AllZero(frame.sk_B) /\ AllZero(frame.e) /\ AllZero(frame.error_seed)
    /\ AllZero(frame.a) /\ AllZero(frame.v) /\ AllZero(frame.r)
    /\ DOMAIN frame.v = 0..(N - 1) /\ DOMAIN frame.error_seed = 0..(ERROR_SEED_BYTES - 1)

C6_Witness ==
  /\ pc = "SB_ret" /\ junk = 90
  /\ Status # Success /\ Len(calls) = 1
  /\ AllZero(frame.v) /\ AllZero(frame.r) /\ AllZero(frame.sk_B)

\* C7: whenever get_error or HelpRec has returned, with success or with an
\* error, its stream buffer, respectively its random_bits buffer, is entirely
\* zero.
StreamsZeroed == AllZero(ge_stream) /\ AllZero(hr_random_bits)

\* Mathematical vocabulary of the reconciliation claims.
HelpRecDone == recIn.mode = "helprec" /\ recOut.done
RecDone == recIn.mode = "rec" /\ recOut.done
\* the number of thresholds k*q/den, k in ks, that y is below
Below(y, ks, den) == Cardinality({k \in ks : den * y < k * PARAMETER_Q})
\* the number of thresholds k*q/den, k in ks, that y exceeds
Exceeded(y, ks, den) == Cardinality({k \in ks : den * y > k * PARAMETER_Q})
NormOf(it) ==
  MathAbs(2 * it.y[0] - PARAMETER_Q * it.v0[0]) + MathAbs(2 * it.y[1] - PARAMETER_Q * it.v0[1])
  + MathAbs(2 * it.y[2] - PARAMETER_Q * it.v0[2]) + MathAbs(2 * it.y[3] - PARAMETER_Q * it.v0[3])
ChosenOf(it) == IF NormOf(it) < PARAMETER_Q THEN it.v0 ELSE it.v1
\* the group's four hint entries for a chosen vector v and a constant c
HintFormula(v, c) ==
  [j \in 0..3 |-> IF j < 3 THEN (v[j] - v[3]) % 4 ELSE (2 * v[3] + c) % 4]
GroupHint(i) == [j \in 0..3 |-> recOut.rvec[i + Groups * j]]

\* C8 as stated: HelpRec selects v0 when norm < q and v1 otherwise and
\* writes r[i+256j] = (v[j]-v[3]) mod 4, r[i+768] = (2 v[3] + c) mod 4 with
\* c = 0 when v1 was chosen and c = 1 when v0 was chosen.
HelpRecHintAsStated ==
  HelpRecDone =>
    \A i \in 0..(Groups - 1) :
      LET it == recOut.iters[i]
      IN  GroupHint(i) = HintFormula(ChosenOf(it), IF NormOf(it) < PARAMETER_Q THEN 1 ELSE 0)

\* C8 amended: the same with c = 1 when v1 was chosen (norm >= q) and c = 0
\* when v0 was chosen (norm < q); every hint entry is in {0,1,2,3}.
HelpRecHint ==
  HelpRecDone =>
    /\ \A i \in 0..(Groups - 1) :
         LET it == recOut.iters[i]
         IN  /\ it.norm = NormOf(it)
             /\ it.v = ChosenOf(it)
             /\ GroupHint(i) = HintFormula(ChosenOf(it), IF NormOf(it) < PARAMETER_Q THEN 0 ELSE 1)
    /\ \A c \in 0..(N - 1) : recOut.rvec[c] \in 0..3

C8_Witness ==
  /\ HelpRecDone
  /\ \E i \in 0..(Groups - 1) : recOut.iters[i].norm = PARAMETER_Q - 1
                                /\ recOut.rvec[i + 3 * Groups] = 0
  /\ \E i \in 0..(Groups - 1) : recOut.iters[i].norm >= PARAMETER_Q
                                /\ recOut.rvec[i + 3 * Groups] = 3

\* C9 as stated: v0[j] is 4 minus the number of thresholds among
\* {q/4, 3q/4, 5q/4, 7q/4} that y_j exceeds and v1[j] is 3 minus the number
\* among {q/2, q, 3q/2} that y_j exceeds, with y_j = 2x - b.
CandidatesAsStated ==
  HelpRecDone =>
    \A i \in 0..(Groups - 1), j \in 0..3 :
      LET it == recOut.iters[i]
      IN  /\ it.y[j] = 2 * recIn.x[i + Groups * j] - it.bit
          /\ it.v0[j] = 4 - Exceeded(it.y[j], {1, 3, 5, 7}, 4)
          /\ it.v1[j] = 3 - Exceeded(it.y[j], {1, 2, 3}, 2)

\* C9 amended: v0[j] is 4 minus the number of thresholds among
\* {q/4, 3q/4, 5q/4, 7q/4} that y_j is below and v1[j] is 3 minus the number
\* among {q/2, q, 3q/2} that y_j is below, with y_j = 2x - b (y_j = -1
\* included).
Candidates ==
  HelpRecDone =>
    \A i \in 0..(Groups - 1), j \in 0..3 :
      LET it == recOut.iters[i]
      IN  /\ it.bit \in {0, 1}
          /\ it.y[j] = 2 * recIn.x[i + Groups * j] - it.bit
          /\ it.v0[j] = 4 - Below(it.y[j], {1, 3, 5, 7}, 4)
          /\ it.v1[j] = 3 - Below(it.y[j], {1, 2, 3}, 2)

C9_Witness ==
  /\ HelpRecDone
  /\ \E i \in 0..(Groups - 1), j \in 0..3 :
       recOut.iters[i].y[j] = -1 /\ recOut.iters[i].v0[j] = 0 /\ recOut.iters[i].v1[j] = 0
  /\ \E i \in 0..(Groups - 1), j \in 0..3 :
       recOut.iters[i].y[j] = PARAMETER_Q /\ recOut.iters[i].v1[j] = 2

\* C10: LDDecode(t) is 1 iff norm < 8q and 0 when norm >= 8q (norm = 8q
\* included), norm being the sum over the lanes of |t_j| when |t_j| <= 4q and
\* of |t_j - 8q| (t_j >= 0) or |t_j + 8q| (t_j < 0) otherwise; Rec stores it
\* as bit (i mod 8) of key[i/8], and key depends on nothing else.
FoldedAbs(tj) ==
  IF MathAbs(tj) <= 4 * PARAMETER_Q THEN MathAbs(tj)
  ELSE IF tj >= 0 THEN MathAbs(tj - 8 * PARAMETER_Q) ELSE MathAbs(tj + 8 * PARAMETER_Q)
DecodeNorm(i) ==
  LET t == Rec_t(recIn.x, recIn.rvec, i)
  IN  FoldedAbs(t[0]) + FoldedAbs(t[1]) + FoldedAbs(t[2]) + FoldedAbs(t[3])
KeyBit(key, i) == (key[i \div 8] \div Pow2(i % 8)) % 2
RecKeyAsStated ==
  RecDone =>
    /\ \A i \in 0..(Groups - 1) :
         KeyBit(recOut.key, i) = IF DecodeNorm(i) < 8 * PARAMETER_Q THEN 1 ELSE 0
    /\ \A i \in Groups..(8 * KeyBytes - 1) : KeyBit(recOut.key, i) = 0

\* Vocabulary of the nonce claim: the stream-oracle calls of the running
\* operation in the order made, and the nonce the k-th of them is to carry
\* (byte 0 = 0, 1, 2 for the get_error calls, byte 1 = 3 for HelpRec).
StreamCalls == SelectSeq(calls, LAMBDA c : c.fn = "stream")
ExpectedNonce(k) ==
  [b \in 0..7 |-> IF k <= 3 /\ b = 0 THEN k - 1
                  ELSE IF k = 4 /\ b = 1 THEN 3 ELSE 0]

\* C11: within one run of KeyGeneration_A or SecretAgreement_B every
\* stream-oracle call passes the same key, the operation's error_seed; the
\* k-th call passes the 8-byte nonce with byte 0 = 0, 1, 2 (get_error) and
\* all other bytes zero, the fourth (HelpRec) the nonce with byte 1 = 3 and
\* all other bytes zero; so the nonces are pairwise distinct, no (key, nonce)
\* pair is passed twice, and the calls come in the order 0, 1, 2, HelpRec.
StreamNonces ==
  (InKA \/ InSB) =>
    LET sc == StreamCalls
    IN  /\ Len(sc) <= (IF InKA THEN 2 ELSE 4)
        /\ \A k \in 1..Len(sc) :
             /\ sc[k].nce = ExpectedNonce(k)
             /\ sc[k].key = sc[1].key
             /\ sc[k].key \in ErrSeedChoices
             /\ ~Returned => sc[k].key = frame.error_seed
        /\ \A k, l \in 1..Len(sc) :
             k # l => <<sc[k].key, sc[k].nce>> # <<sc[l].key, sc[l].nce>>

C11_Witness ==
  /\ pc = "SB_ret" /\ Status = Success
  /\ Len(StreamCalls) = 4
  /\ StreamCalls[1].nce[0] = 0 /\ StreamCalls[3].nce[0] = 2
  /\ StreamCalls[4].nce[1] = 3 /\ StreamCalls[4].nce[0] = 0
  /\ StreamCalls[4].key[0] = 42
====
